---- MODULE Spec2Model ----
(***************************************************************************)
(* Model of bankroll-broker-vanguard (vanguard.py): parsePositionsAndActivity *)
(* over one CSV export, as a state machine.                                 *)
(*                                                                         *)
(* A Python str is modelled as a sequence of chunks (a chunk is a non-empty *)
(* piece of text; whitespace characters and the percent sign are chunks of  *)
(* their own), so that len(s) > 0 is Len(s) > 0 and the bond regex is       *)
(* evaluated on the text, not assumed.  A CSV row is a sequence of strs.    *)
(***************************************************************************)
EXTENDS Integers, Sequences, FiniteSets, TLC

VARIABLES
    file,        \* the rows csv.reader yields for the file at `path`
    lenient,     \* the caller's lenient argument
    pc,          \* position inside parsePositionsAndActivity
    handles,     \* number of file handles currently open
    passLenient, \* lenient argument received by each pass (empty before its call)
    rows,        \* sections[0].rows of the running pass
    idx,         \* next row the lazy conversion will consume
    out,         \* records the running pass has collected
    activity,    \* value returned by __parseTransactions
    posActivity, \* activity argument received by __parsePositions
    log,         \* conversions made so far, in order
    result,      \* value returned by parsePositionsAndActivity
    error        \* exception raised to the caller

vars == <<file, lenient, pc, handles, passLenient, rows, idx, out, activity,
          posActivity, log, result, error>>

----------------------------------------------------------------------------
(* Bounds of the model *)

MaxTransactionRows == 2
MaxPositionRows == 1

----------------------------------------------------------------------------
(* Text *)

S(x) == <<x>>
Empty == <<>>
None == [tag |-> "None"]
Ok(v) == [tag |-> "ok", value |-> v]
Raise(e) == [tag |-> "raise", exc |-> e]

IsSpace(c) == c \in {" ", "\t"}

\* line 35: re.match(r'^.+\s\%\s.+$', name)
BondNameMatch(name) ==
    \E i \in 2..Len(name) :
        /\ i + 2 < Len(name)
        /\ IsSpace(name[i])
        /\ name[i + 1] = "%"
        /\ IsSpace(name[i + 2])

\* Decimal(str): the numeric texts of the model and their values
DecimalTable ==
    [s \in {"10", "-10", "50", "1", "0"} |->
        CASE s = "10" -> 10
          [] s = "-10" -> 0 - 10
          [] s = "50" -> 50
          [] s = "1" -> 1
          [] s = "0" -> 0]

Decimal(s) ==
    IF Len(s) = 1 /\ s[1] \in DOMAIN DecimalTable
    THEN Ok(DecimalTable[s[1]])
    ELSE Raise("InvalidOperation")

\* datetime.strptime(str, '%m/%d/%Y')
DateTable ==
    [s \in {"01/02/2020", "12/31/2019"} |->
        CASE s = "01/02/2020" -> <<2020, 1, 2>>
          [] s = "12/31/2019" -> <<2019, 12, 31>>]

Strptime(s) ==
    IF Len(s) = 1 /\ s[1] \in DOMAIN DateTable
    THEN Ok(DateTable[s[1]])
    ELSE Raise("ValueError")

----------------------------------------------------------------------------
(* Domain constructors *)

Stock(symbol) ==
    IF Len(symbol) = 0 THEN Raise("ValueError")
    ELSE Ok([kind |-> "Stock", symbol |-> symbol])

\* Bond(name, validateSymbol=False)
Bond(symbol) ==
    IF Len(symbol) = 0 THEN Raise("ValueError")
    ELSE Ok([kind |-> "Bond", symbol |-> symbol])

guessInstrumentForInvestmentName(name) ==
    IF BondNameMatch(name) THEN Bond(name) ELSE Stock(name)

----------------------------------------------------------------------------
(* analysis.realizedBasisForSymbol: None when no trade of the activity has  *)
(* the symbol, otherwise the sum of amount plus fees over the matching ones *)

RECURSIVE basisSum(_, _)
basisSum(symbol, acts) ==
    IF Len(acts) = 0 THEN 0
    ELSE (IF acts[1].instrument.symbol = symbol
          THEN acts[1].amount + acts[1].fees ELSE 0)
         + basisSum(symbol, Tail(acts))

realizedBasisForSymbol(symbol, acts) ==
    IF \E i \in 1..Len(acts) : acts[i].instrument.symbol = symbol
    THEN Ok(basisSum(symbol, acts))
    ELSE None

----------------------------------------------------------------------------
(* Row shapes *)

VanguardPositionArity == 5
VanguardTransactionArity == 13

\* VanguardPosition._make(r)
MakeVanguardPosition(r) ==
    IF Len(r) # VanguardPositionArity THEN Raise("TypeError")
    ELSE Ok([investmentName |-> r[1], symbol |-> r[2], shares |-> r[3],
             sharePrice |-> r[4], totalValue |-> r[5]])

\* VanguardTransaction._make(r)
MakeVanguardTransaction(r) ==
    IF Len(r) # VanguardTransactionArity THEN Raise("TypeError")
    ELSE Ok([tradeDate |-> r[1], settlementDate |-> r[2],
             transactionType |-> r[3], transactionDescription |-> r[4],
             investmentName |-> r[5], symbol |-> r[6], shares |-> r[7],
             sharePrice |-> r[8], principalAmount |-> r[9],
             commissionFees |-> r[10], netAmount |-> r[11],
             accruedInterest |-> r[12], accountType |-> r[13]])

----------------------------------------------------------------------------
(* Positions *)

PositionInstrumentNoBond(p) ==
    IF Len(p.symbol) > 0 THEN Stock(p.symbol) ELSE Stock(p.investmentName)

\* parseVanguardPosition, lines 51-55
PositionInstrument(p) ==
    IF Len(p.symbol) > 0 THEN Stock(p.symbol)
    ELSE guessInstrumentForInvestmentName(p.investmentName)

parseVanguardPosition(p, acts) ==
    LET instrument == PositionInstrument(p) IN
    IF instrument.tag = "raise" THEN instrument ELSE
    LET qty == Decimal(p.shares) IN
    IF qty.tag = "raise" THEN qty ELSE
    LET realizedBasis == realizedBasisForSymbol(instrument.value.symbol, acts) IN
    IF realizedBasis.tag = "None" THEN Raise("AssertionError") ELSE
    Ok([instrument |-> instrument.value,
        quantity |-> qty.value,
        costBasis |-> realizedBasis.value])

parseVanguardPositionAndActivity(vpb) ==
    parseVanguardPosition(vpb.position, vpb.activity)

----------------------------------------------------------------------------
(* Transactions *)

TransactionInstrument(t) ==
    IF Len(t.symbol) > 0 THEN Stock(t.symbol)
    ELSE guessInstrumentForInvestmentName(t.investmentName)

SignedSharesByType(t, d) ==
    IF t.transactionType = S("Corp Action (Redemption)") THEN d * (0 - 1) ELSE d

\* forceParseVanguardTransaction, lines 126-129, d = Decimal(t.shares)
SignedShares(t, d) ==
    IF t.transactionDescription = S("Redemption") THEN d * (0 - 1) ELSE d

forceParseVanguardTransaction(t, flags) ==
    LET instrument == TransactionInstrument(t) IN
    IF instrument.tag = "raise" THEN instrument ELSE
    LET totalFees == Decimal(t.commissionFees) IN
    IF totalFees.tag = "raise" THEN totalFees ELSE
    LET amount == Decimal(t.principalAmount) IN
    IF amount.tag = "raise" THEN amount ELSE
    LET shares == Decimal(t.shares) IN
    IF shares.tag = "raise" THEN shares ELSE
    LET date == Strptime(t.tradeDate) IN
    IF date.tag = "raise" THEN date ELSE
    Ok([date |-> date.value,
        instrument |-> instrument.value,
        quantity |-> SignedShares(t, shares.value),
        amount |-> amount.value,
        fees |-> totalFees.value,
        flags |-> flags])

validTransactionTypes ==
    {S("Buy"), S("Sell"), S("Reinvestment"), S("Corp Action (Redemption)"),
     S("Transfer (outgoing)")}

flagsByTransactionType(type) ==
    CASE type = S("Buy") -> {"OPEN"}
      [] type = S("Sell") -> {"CLOSE"}
      [] type = S("Reinvestment") -> {"OPEN", "DRIP"}
      [] type = S("Corp Action (Redemption)") -> {"CLOSE"}
      [] type = S("Transfer (outgoing)") -> {"CLOSE"}

parseVanguardTransaction(t) ==
    IF t.transactionType \notin validTransactionTypes THEN None
    ELSE forceParseVanguardTransaction(t, flagsByTransactionType(t.transactionType))

----------------------------------------------------------------------------
(* csvsectionslicer.parseSectionsForCSV for one criterion: the section      *)
(* starts after the first row whose leading fields equal startMatch and     *)
(* runs to the first row whose leading fields equal a non-empty endMatch,   *)
(* or to the end of the file; a criterion that never starts contributes no  *)
(* section; malformed CSV framing fails the whole scan                      *)

MalformedRow == <<S("\"unterminated")>>

RowMatches(r, match) ==
    /\ Len(r) >= Len(match)
    /\ \A k \in 1..Len(match) : r[k] = match[k]

\* rowFilter=lambda r: r[1:-1]
TransactionsRowFilter(r) ==
    IF Len(r) <= 2 THEN <<>> ELSE SubSeq(r, 2, Len(r) - 1)

\* rowFilter=lambda r: r[1:6]
PositionsRowFilter(r) ==
    IF Len(r) <= 1 THEN <<>>
    ELSE SubSeq(r, 2, IF Len(r) < 6 THEN Len(r) ELSE 6)

\* the criterion's rowFilter applied to a row
ApplyRowFilter(f, r) ==
    CASE f = "r[1:-1]" -> TransactionsRowFilter(r)
      [] f = "r[1:6]" -> PositionsRowFilter(r)

parseSectionsForCSV(csvfile, c) ==
    IF \E i \in 1..Len(csvfile) : csvfile[i] = MalformedRow
    THEN Raise("csv.Error")
    ELSE
    LET starts == {i \in 1..Len(csvfile) : RowMatches(csvfile[i], c.startSectionRowMatch)} IN
    IF starts = {} THEN Ok(<<>>)
    ELSE
    LET first == CHOOSE i \in starts : \A j \in starts : i <= j
        ends == {i \in (first + 1)..Len(csvfile) :
                    /\ Len(c.endSectionRowMatch) > 0
                    /\ RowMatches(csvfile[i], c.endSectionRowMatch)}
        last == IF ends = {} THEN Len(csvfile)
                ELSE (CHOOSE i \in ends : \A j \in ends : i <= j) - 1
    IN Ok(<<[k \in 1..(last - first) |-> ApplyRowFilter(c.rowFilter, csvfile[first + k])]>>)

(* parsetools.lenientParse, one item: a conversion failure is dropped in    *)
(* lenient mode and propagates in strict mode; a failed assertion or any    *)
(* other exception is not a conversion failure; None passes through         *)

ConversionErrors == {"ValueError", "InvalidOperation"}

lenientParse(outcome, isLenient) ==
    IF outcome.tag = "raise" /\ outcome.exc \in ConversionErrors /\ isLenient
    THEN [tag |-> "dropped"]
    ELSE outcome

----------------------------------------------------------------------------
(* The adapter's criteria and arguments *)

\* lines 164-167
transactionsCriterion ==
    [startSectionRowMatch |-> <<S("Account Number"), S("Trade Date")>>,
     endSectionRowMatch |-> <<>>,
     rowFilter |-> "r[1:-1]"]

\* lines 72-75
criterion ==
    [startSectionRowMatch |-> <<S("Account Number")>>,
     endSectionRowMatch |-> <<>>,
     rowFilter |-> "r[1:6]"]

TransactionsLenientArgStrict(l) == FALSE

\* line 180: lenient=lenient
TransactionsLenientArg(l) == l

PositionsLenientArgLenient(l) == TRUE

\* line 89: lenient=lenient
PositionsLenientArg(l) == l

PositionsActivityArgEmpty(a) == <<>>

\* line 95: activity=activity; line 83: VanguardPositionAndActivity(pos, activity)
PositionsActivityArg(a) == a

FilterNoneKeepAll(collected, res) ==
    IF res.tag = "ok" THEN Append(collected, res.value)
    ELSE IF res.tag = "None" THEN Append(collected, None)
    ELSE collected

\* lines 174-176: list(filter(None, ...))
FilterNone(collected, res) ==
    IF res.tag = "ok" THEN Append(collected, res.value) ELSE collected

\* lines 86-89: list(lenientParse(...))
CollectPositions(collected, res) ==
    IF res.tag = "ok" THEN Append(collected, res.value)
    ELSE IF res.tag = "None" THEN Append(collected, None)
    ELSE collected

WithExitLeak(h) == h

\* leaving a `with open(...)` block, by return or by exception
WithExit(h) == h - 1

SectionRowsUnguarded(sections) ==
    IF Len(sections) = 0 THEN Raise("IndexError") ELSE Ok(sections[1])

\* lines 78-79 and 171-172: if len(sections) == 0: return []; else sections[0].rows
SectionRows(sections) ==
    IF Len(sections) = 0 THEN [tag |-> "return"] ELSE Ok(sections[1])

----------------------------------------------------------------------------
(* The files of the model: rows of a Vanguard export *)

Acct == S("12345678")
NameABC == <<"ABC", " ", "Corp">>
NameBond == <<"US TREAS 2.5", " ", "%", " ", "2030">>

TransactionsHeader ==
    <<S("Account Number"), S("Trade Date"), S("Settlement Date"),
      S("Transaction Type"), S("Transaction Description"),
      S("Investment Name"), S("Symbol"), S("Shares"), S("Share Price"),
      S("Principal Amount"), S("Commission Fees"), S("Net Amount"),
      S("Accrued Interest"), S("Account Type"), Empty>>

PositionsHeader ==
    <<S("Account Number"), S("Investment Name"), S("Symbol"), S("Shares"),
      S("Share Price"), S("Total Value"), Empty>>

TxRow(date, type, desc, name, sym, shares, principal, fees) ==
    <<Acct, date, S("01/03/2020"), type, desc, name, sym, shares, S("1"),
      principal, fees, S("50"), S("0"), S("CASH"), Empty>>

PosRow(name, sym, shares) ==
    <<Acct, name, sym, shares, S("1"), S("50"), Empty>>

BuyRow == TxRow(S("01/02/2020"), S("Buy"), S("Buy"), NameABC, S("ABC"),
                S("10"), S("50"), S("1"))
FeeRow == TxRow(S("n/a"), S("Fee"), S("Redemption"), Empty, Empty,
                S("--"), S("--"), S("--"))
SellRedemptionRow ==
    TxRow(S("12/31/2019"), S("Sell"), S("Redemption"), NameABC, Empty,
          S("10"), S("50"), S("0"))
CorpActionBondRow ==
    TxRow(S("12/31/2019"), S("Corp Action (Redemption)"), S("Maturity"),
          NameBond, Empty, S("-10"), S("50"), S("0"))
BadDateRow == TxRow(S("2020-01-02"), S("Buy"), S("Buy"), NameABC, S("ABC"),
                    S("10"), S("50"), S("1"))
BadDecimalRow == TxRow(S("01/02/2020"), S("Sell"), S("Sell"), NameABC, S("ABC"),
                       S("ten"), S("50"), S("1"))
NoSymbolRow == TxRow(S("01/02/2020"), S("Buy"), S("Buy"), Empty, Empty,
                     S("10"), S("50"), S("1"))

TransactionRowSet ==
    {BuyRow, FeeRow, SellRedemptionRow, CorpActionBondRow, BadDateRow,
     BadDecimalRow, NoSymbolRow}

PositionRowSet ==
    {PosRow(NameABC, S("ABC"), S("10")),
     PosRow(NameBond, Empty, S("10")),
     PosRow(NameABC, Empty, S("1")),
     PosRow(S("XYZ Fund"), S("XYZ"), S("10")),
     PosRow(NameABC, S("ABC"), S("ten"))}

SeqsUpTo(set, n) == UNION {[1..k -> set] : k \in 0..n}

\* csv.reader yields an empty row for a blank line
BlankRow == <<>>

Layouts ==
    {"none", "tx_only", "pos_only", "pos_blank", "tx_pos", "pos_tx", "malformed"}

FileOf(layout, txs, poss) ==
    CASE layout = "none" -> txs
      [] layout = "tx_only" -> <<TransactionsHeader>> \o txs
      [] layout = "pos_only" -> <<PositionsHeader>> \o poss
      [] layout = "pos_blank" -> <<PositionsHeader>> \o poss \o <<BlankRow>>
      [] layout = "tx_pos" ->
            <<TransactionsHeader>> \o txs \o <<PositionsHeader>> \o poss
      [] layout = "pos_tx" ->
            <<PositionsHeader>> \o poss \o <<TransactionsHeader>> \o txs
      [] layout = "malformed" ->
            <<TransactionsHeader>> \o txs \o <<MalformedRow>>

Files ==
    {FileOf(layout, txs, poss) :
        layout \in Layouts,
        txs \in SeqsUpTo(TransactionRowSet, MaxTransactionRows),
        poss \in SeqsUpTo(PositionRowSet, MaxPositionRows)}

----------------------------------------------------------------------------
(* parsePositionsAndActivity(path, lenient) *)

Init ==
    /\ file \in Files
    /\ lenient \in BOOLEAN
    /\ pc = "start"
    /\ handles = 0
    /\ passLenient = [tx |-> {}, pos |-> {}]
    /\ rows = <<>>
    /\ idx = 0
    /\ out = <<>>
    /\ activity = <<>>
    /\ posActivity = <<>>
    /\ log = <<>>
    /\ result = None
    /\ error = "none"

\* line 94 calls __parseTransactions; line 163 opens the file
ParseTransactionsOpen ==
    /\ pc = "start"
    /\ pc' = "tx_slice"
    /\ handles' = handles + 1
    /\ passLenient' = [passLenient EXCEPT !.tx = {TransactionsLenientArg(lenient)}]
    /\ UNCHANGED <<file, lenient, rows, idx, out, activity, posActivity, log,
                   result, error>>

\* lines 164-172
ParseTransactionsSlice ==
    /\ pc = "tx_slice"
    /\ LET sections == parseSectionsForCSV(file, transactionsCriterion)
           sec == IF sections.tag = "raise" THEN sections
                  ELSE SectionRows(sections.value)
       IN CASE sec.tag = "raise" ->
                 /\ pc' = "raised"
                 /\ error' = sec.exc
                 /\ handles' = WithExit(handles)
                 /\ UNCHANGED <<rows, idx, out, activity>>
            [] sec.tag = "return" ->
                 /\ pc' = "pos_open"
                 /\ activity' = <<>>
                 /\ handles' = WithExit(handles)
                 /\ UNCHANGED <<rows, idx, out, error>>
            [] sec.tag = "ok" ->
                 /\ pc' = "tx_rows"
                 /\ rows' = sec.value
                 /\ idx' = 1
                 /\ out' = <<>>
                 /\ UNCHANGED <<handles, activity, error>>
    /\ UNCHANGED <<file, lenient, passLenient, posActivity, log, result>>

\* lines 174-180: list() pulls one more item through filter, lenientParse
\* and the VanguardTransaction._make generator
ParseTransactionsRow ==
    /\ pc = "tx_rows"
    /\ idx <= Len(rows)
    /\ LET t == MakeVanguardTransaction(rows[idx])
           raw == IF t.tag = "raise" THEN t ELSE parseVanguardTransaction(t.value)
           res == IF t.tag = "raise" THEN t ELSE lenientParse(raw, TRUE \in passLenient.tx)
       IN /\ log' = Append(log, [pass |-> "tx", item |-> rows[idx],
                                 raw |-> raw, res |-> res])
          /\ IF res.tag = "raise"
             THEN /\ pc' = "raised"
                  /\ error' = res.exc
                  /\ handles' = WithExit(handles)
                  /\ UNCHANGED <<idx, out>>
             ELSE /\ out' = FilterNone(out, res)
                  /\ idx' = idx + 1
                  /\ UNCHANGED <<pc, error, handles>>
    /\ UNCHANGED <<file, lenient, passLenient, rows, activity, posActivity,
                   result>>

\* the list is complete: __parseTransactions returns it
ParseTransactionsReturn ==
    /\ pc = "tx_rows"
    /\ idx > Len(rows)
    /\ pc' = "pos_open"
    /\ activity' = out
    /\ handles' = WithExit(handles)
    /\ rows' = <<>>
    /\ idx' = 0
    /\ out' = <<>>
    /\ UNCHANGED <<file, lenient, passLenient, posActivity, log, result, error>>

\* line 95 calls __parsePositions; line 71 opens the file
ParsePositionsOpen ==
    /\ pc = "pos_open"
    /\ pc' = "pos_slice"
    /\ handles' = handles + 1
    /\ passLenient' = [passLenient EXCEPT !.pos = {PositionsLenientArg(lenient)}]
    /\ posActivity' = PositionsActivityArg(activity)
    /\ UNCHANGED <<file, lenient, rows, idx, out, activity, log, result, error>>

\* lines 72-84: the slice, then the eager list of VanguardPositionAndActivity
ParsePositionsSlice ==
    /\ pc = "pos_slice"
    /\ LET sections == parseSectionsForCSV(file, criterion)
           sec == IF sections.tag = "raise" THEN sections
                  ELSE SectionRows(sections.value)
           made == IF sec.tag # "ok" THEN sec
                   ELSE IF \E i \in 1..Len(sec.value) :
                              MakeVanguardPosition(sec.value[i]).tag = "raise"
                   THEN Raise("TypeError")
                   ELSE Ok([i \in 1..Len(sec.value) |->
                              [position |-> MakeVanguardPosition(sec.value[i]).value,
                               activity |-> posActivity]])
       IN CASE made.tag = "raise" ->
                 /\ pc' = "raised"
                 /\ error' = made.exc
                 /\ handles' = WithExit(handles)
                 /\ UNCHANGED <<rows, idx, out, result>>
            [] made.tag = "return" ->
                 /\ pc' = "done"
                 /\ result' = Ok([positions |-> <<>>, activity |-> activity])
                 /\ handles' = WithExit(handles)
                 /\ UNCHANGED <<rows, idx, out, error>>
            [] made.tag = "ok" ->
                 /\ pc' = "pos_rows"
                 /\ rows' = made.value
                 /\ idx' = 1
                 /\ out' = <<>>
                 /\ UNCHANGED <<handles, result, error>>
    /\ UNCHANGED <<file, lenient, passLenient, activity, posActivity, log>>

\* lines 86-89: list() pulls one more item through lenientParse
ParsePositionsRow ==
    /\ pc = "pos_rows"
    /\ idx <= Len(rows)
    /\ LET raw == parseVanguardPositionAndActivity(rows[idx])
           res == lenientParse(raw, TRUE \in passLenient.pos)
       IN /\ log' = Append(log, [pass |-> "pos", item |-> rows[idx].position,
                                 raw |-> raw, res |-> res])
          /\ IF res.tag = "raise"
             THEN /\ pc' = "raised"
                  /\ error' = res.exc
                  /\ handles' = WithExit(handles)
                  /\ UNCHANGED <<idx, out>>
             ELSE /\ out' = CollectPositions(out, res)
                  /\ idx' = idx + 1
                  /\ UNCHANGED <<pc, error, handles>>
    /\ UNCHANGED <<file, lenient, passLenient, rows, activity, posActivity,
                   result>>

\* __parsePositions returns; line 96 builds PositionsAndActivity
ParsePositionsReturn ==
    /\ pc = "pos_rows"
    /\ idx > Len(rows)
    /\ pc' = "done"
    /\ result' = Ok([positions |-> out, activity |-> activity])
    /\ handles' = WithExit(handles)
    /\ rows' = <<>>
    /\ idx' = 0
    /\ out' = <<>>
    /\ UNCHANGED <<file, lenient, passLenient, activity, posActivity, log, error>>

Next ==
    \/ ParseTransactionsOpen
    \/ ParseTransactionsSlice
    \/ ParseTransactionsRow
    \/ ParseTransactionsReturn
    \/ ParsePositionsOpen
    \/ ParsePositionsSlice
    \/ ParsePositionsRow
    \/ ParsePositionsReturn

Spec == Init /\ [][Next]_vars

----------------------------------------------------------------------------
(* Vocabulary of the properties *)

Terminal == pc \in {"done", "raised"}

TransactionsPassRaised == pc = "raised" /\ passLenient.pos = {}

TransactionsPassReturned ==
    \/ pc \in {"pos_open", "pos_slice", "pos_rows", "done"}
    \/ pc = "raised" /\ passLenient.pos # {}

LogOf(pass) == SelectSeq(log, LAMBDA e : e.pass = pass)

IsNoneEntry(x) == "tag" \in DOMAIN x

WellFramed == \A i \in 1..Len(file) : file[i] # MalformedRow

NoTransactionsStart ==
    \A i \in 1..Len(file) :
        ~(Len(file[i]) >= 2 /\ file[i][1] = S("Account Number")
                            /\ file[i][2] = S("Trade Date"))

NoPositionsStart ==
    \A i \in 1..Len(file) :
        ~(Len(file[i]) >= 1 /\ file[i][1] = S("Account Number"))

\* the rows of the transactions section, as the transactions pass sees them
TransactionsSection ==
    LET sections == parseSectionsForCSV(file, transactionsCriterion)
    IN IF sections.tag = "ok" /\ Len(sections.value) > 0
       THEN sections.value[1] ELSE <<>>

\* every row of the section is a 13-field transaction row
TransactionRowsOnly ==
    /\ WellFramed
    /\ ~NoTransactionsStart
    /\ \A i \in 1..Len(TransactionsSection) : Len(TransactionsSection[i]) = 13

RecognisedType(r) ==
    r[3] \in {S("Buy"), S("Sell"), S("Reinvestment"),
              S("Corp Action (Redemption)"), S("Transfer (outgoing)")}

\* bad trade date, bad decimal in shares / principal amount / commission-fees,
\* or an instrument no constructor accepts
FailsConversion(r) ==
    \/ Strptime(r[1]).tag = "raise"
    \/ Decimal(r[7]).tag = "raise"
    \/ Decimal(r[9]).tag = "raise"
    \/ Decimal(r[10]).tag = "raise"
    \/ Len(r[5]) = 0 /\ Len(r[6]) = 0

RecognisedRows == SelectSeq(TransactionsSection, RecognisedType)
FailingRows == SelectSeq(RecognisedRows, FailsConversion)
GoodRows == SelectSeq(RecognisedRows, LAMBDA r : ~FailsConversion(r))

TradeOf(r) == parseVanguardTransaction(MakeVanguardTransaction(r).value).value

----------------------------------------------------------------------------
\* C1: in lenient mode, a transactions section of N rows of a recognised
\* type of which K fail conversion makes the transactions pass return,
\* without raising, exactly the N-K trades of the non-failing rows in file
\* order.
C1_LenientDropLaw ==
    (lenient /\ TransactionRowsOnly) =>
        /\ ~TransactionsPassRaised
        /\ TransactionsPassReturned =>
              /\ Len(activity) = Len(RecognisedRows) - Len(FailingRows)
              /\ Len(activity) = Len(GoodRows)
              /\ \A j \in 1..Len(activity) : activity[j] = TradeOf(GoodRows[j])

C1_Witness ==
    /\ lenient
    /\ TransactionRowsOnly
    /\ TransactionsPassReturned
    /\ Len(RecognisedRows) = 2
    /\ Len(FailingRows) = 1
    /\ Len(activity) = 1

\* C2: in strict mode the first row whose conversion fails, in either pass,
\* aborts the call with that error: it is the last row converted, every row
\* of the pass before it was converted without failure, and no
\* PositionsAndActivity value is returned.
C2_StrictAbortsOnFirstFailure ==
    ~lenient =>
        /\ \A i \in 1..Len(log) :
              log[i].raw.tag = "raise" =>
                  /\ i = Len(log)
                  /\ pc = "raised"
                  /\ error = log[i].raw.exc
        /\ pc = "raised" => result = None
        /\ \A i \in 1..Len(LogOf("tx")) :
              LogOf("tx")[i].item = TransactionsSection[i]

C2_Witness ==
    /\ ~lenient
    /\ pc = "raised"
    /\ result = None
    /\ Len(log) >= 2
    /\ log[Len(log)].pass = "pos"
    /\ log[Len(log)].raw.tag = "raise"
    /\ log[Len(log)].raw.exc = "InvalidOperation"

\* C3: a position row whose realized-basis lookup yields nothing is handled
\* per the lenient flag: in lenient mode that row alone is dropped and the
\* parse goes on.
C3_MissingBasisFollowsFlag ==
    lenient =>
        \A i \in 1..Len(log) :
            (log[i].pass = "pos" /\ log[i].raw = Raise("AssertionError")) =>
                log[i].res.tag = "dropped" /\ pc # "raised"

\* C3, second half: no returned Position has a null cost basis.
C3_NoNullBasis ==
    pc = "done" =>
        \A j \in 1..Len(result.value.positions) :
            /\ ~IsNoneEntry(result.value.positions[j])
            /\ result.value.positions[j].costBasis \in Int

----------------------------------------------------------------------------
\* no row converted so far has a malformed date, number or instrument
NoMalformedField ==
    \A i \in 1..Len(log) :
        log[i].raw.tag = "raise" => log[i].raw.exc = "AssertionError"

C5_File ==
    <<TransactionsHeader, BuyRow, FeeRow, PositionsHeader,
      PosRow(NameABC, S("ABC"), S("10"))>>

\* C5: the two-section file (transactions header, a Buy row, a Fee row,
\* positions header, a position row of the Buy row's symbol) yields exactly
\* one Trade with flag OPEN, nothing for the Fee row, and one Position whose
\* cost basis is the basis of that Trade.

C5_EndToEnd ==
    (file = C5_File /\ Terminal) =>
        /\ pc = "done"
        /\ Len(result.value.activity) = 1
        /\ result.value.activity[1].flags = {"OPEN"}
        /\ Len(result.value.positions) = 1
        /\ result.value.positions[1].costBasis =
              result.value.activity[1].amount + result.value.activity[1].fees

\* C6: a 13-field transaction row of an unrecognised type converts to None,
\* never to an error, whatever the mode and whatever its date and numeric
\* fields hold, and no activity list ever holds a None entry.
C6_UnrecognisedTypeIsFilteredNone ==
    /\ \A i \in 1..Len(log) :
          (log[i].pass = "tx" /\ Len(log[i].item) = 13
                              /\ ~RecognisedType(log[i].item)) =>
              /\ log[i].raw = None
              /\ log[i].res = None
              /\ (i = Len(log) => ~TransactionsPassRaised)
    /\ \A j \in 1..Len(activity) : ~IsNoneEntry(activity[j])
    /\ pc = "tx_rows" => \A j \in 1..Len(out) : ~IsNoneEntry(out[j])
    /\ pc = "done" =>
          \A j \in 1..Len(result.value.activity) :
              ~IsNoneEntry(result.value.activity[j])

C6_Witness ==
    /\ ~lenient
    /\ TransactionsPassReturned
    /\ \E i \in 1..Len(log) :
          /\ log[i].pass = "tx"
          /\ Len(log[i].item) = 13
          /\ log[i].item[3] = S("Fee")
          /\ Strptime(log[i].item[1]).tag = "raise"
          /\ Decimal(log[i].item[7]).tag = "raise"
          /\ log[i].res = None
    /\ Len(activity) = 1

\* C7: the quantity of every Trade is the negated shares field when the
\* transaction description is exactly "Redemption", and the shares field
\* with its sign kept for every other description, whatever the type.
C7_SignConvention ==
    \A i \in 1..Len(log) :
        (log[i].pass = "tx" /\ log[i].res.tag = "ok") =>
            log[i].res.value.quantity =
                IF log[i].item[4] = S("Redemption")
                THEN 0 - DecimalTable[log[i].item[7][1]]
                ELSE DecimalTable[log[i].item[7][1]]

C7_Witness ==
    /\ \E i \in 1..Len(log) :
          /\ log[i].pass = "tx"
          /\ log[i].res.tag = "ok"
          /\ log[i].item[4] = S("Redemption")
          /\ log[i].item[7] = S("10")
          /\ log[i].res.value.quantity = 0 - 10
    /\ \E i \in 1..Len(log) :
          /\ log[i].pass = "tx"
          /\ log[i].res.tag = "ok"
          /\ log[i].item[3] = S("Corp Action (Redemption)")
          /\ log[i].item[4] # S("Redemption")
          /\ log[i].res.value.quantity = 0 - 10

\* a name of the form X % Y: text, whitespace, percent sign, whitespace, text
HasPercentForm(name) ==
    \E x, y \in 1..Len(name) :
        /\ x + 3 + y = Len(name)
        /\ name[x + 1] \in {" ", "\t"}
        /\ name[x + 2] = "%"
        /\ name[x + 3] \in {" ", "\t"}

InferredInstrument(symbol, name) ==
    IF symbol # <<>> THEN [kind |-> "Stock", symbol |-> symbol]
    ELSE IF HasPercentForm(name) THEN [kind |-> "Bond", symbol |-> name]
    ELSE [kind |-> "Stock", symbol |-> name]

\* C8: the instrument of every Trade and of every Position is the same
\* function of (symbol field, investment name): the symbol as an equity when
\* it is non-empty, else the name as a bond when it has the form X % Y,
\* else the name as an equity.
C8_InstrumentInference ==
    \A i \in 1..Len(log) :
        log[i].res.tag = "ok" =>
            log[i].res.value.instrument =
                IF log[i].pass = "tx"
                THEN InferredInstrument(log[i].item[6], log[i].item[5])
                ELSE InferredInstrument(log[i].item.symbol,
                                        log[i].item.investmentName)

C8_Witness ==
    /\ \E i \in 1..Len(log) :
          /\ log[i].pass = "tx"
          /\ log[i].res.tag = "ok"
          /\ log[i].res.value.instrument = [kind |-> "Bond", symbol |-> NameBond]
    /\ \E i \in 1..Len(log) :
          /\ log[i].pass = "tx"
          /\ log[i].res.tag = "ok"
          /\ log[i].res.value.instrument = [kind |-> "Stock", symbol |-> NameABC]
    /\ \E i \in 1..Len(log) :
          /\ log[i].pass = "pos"
          /\ log[i].res.tag = "ok"
          /\ log[i].item.symbol = <<>>
          /\ log[i].res.value.instrument.kind = "Bond"

\* C9: each pass holds exactly one open handle from its start until it
\* returns or raises, rows are converted only while it is open, and no
\* handle is open between the passes or once the call has returned or raised.
C9_HandleScopedToPass ==
    handles = IF pc \in {"tx_slice", "tx_rows", "pos_slice", "pos_rows"}
              THEN 1 ELSE 0

C9_Witness ==
    /\ pc = "raised"
    /\ handles = 0
    /\ Len(log) >= 2
    /\ log[Len(log)].res.tag = "raise"

\* C10: the transactions pass has returned before the positions pass
\* starts, both passes receive the caller's lenient flag, the activity every
\* position row is paired with is the activity list that is returned, and
\* that list holds the trades in the order of their rows in the file.
C10_TwoStepOrdering ==
    /\ passLenient.tx \in {{}, {lenient}}
    /\ passLenient.pos \in {{}, {lenient}}
    /\ passLenient.pos # {} => TransactionsPassReturned
    /\ \A i, j \in 1..Len(log) :
          (i < j /\ log[i].pass = "pos") => log[j].pass = "pos"
    /\ pc \in {"pos_slice", "pos_rows", "done"} => posActivity = activity
    /\ pc = "pos_rows" => \A k \in 1..Len(rows) : rows[k].activity = activity
    /\ pc = "done" => result.value.activity = posActivity
    /\ TransactionsPassReturned =>
          LET made == SelectSeq(LogOf("tx"), LAMBDA e : e.res.tag = "ok")
          IN /\ Len(activity) = Len(made)
             /\ \A k \in 1..Len(made) : activity[k] = made[k].res.value

C10_Witness ==
    /\ pc = "done"
    /\ Len(result.value.activity) = 2
    /\ result.value.activity[1].date = <<2020, 1, 2>>
    /\ result.value.activity[2].date = <<2019, 12, 31>>
    /\ Len(result.value.positions) = 1

====
